---- MODULE Spec2Model ----
(***************************************************************************)
(* Address reconciliation: the conflict resolver (resolve_and_apply_changes)*)
(* and the signature splitter (split_conflicting_addresses) of             *)
(* scripts/main.py, the disjoint-set structure of scripts/helpers.py, the   *)
(* two fuzzy rules of scripts/fuzzy_search.py and                           *)
(* scripts/fuzzy_search_cities.py, and the batch run (main) with the ZIP    *)
(* rules of scripts/fill_missing_zip_codes.py.                              *)
(*                                                                         *)
(* A string is a tuple of one-character strings; Alphabet lists the        *)
(* characters in code-point order, which is the order Python compares      *)
(* strings by.  NaN is the pandas missing value, None the Python null.     *)
(***************************************************************************)
EXTENDS Integers, Sequences, FiniteSets, TLC

VARIABLES
  pc,               \* position of the running call
  df_fa_in,         \* the address table the call was given
  df_r_in,          \* the relationship table the call was given
  df_fa,            \* the address table being built (a sequence of rows)
  df_r,             \* the relationship table being built
  proposals,        \* resolver: the proposal list
  max_aid_in,       \* resolver: current_max_aid on entry
  current_max_aid,  \* resolver: the running counter
  splits,           \* resolver: the SplitEvent log
  bucket,           \* resolver: (AID, column) -> proposals, in insertion order
  bpos,             \* resolver: the partition the outer loop stands at
  val2eids,         \* resolver: value -> supporters of the current partition
  vpos,             \* resolver: the variant the inner loop stands at
  idx0,             \* resolver: idx[0], the row of the current partition
  calls,            \* splitter: calls completed
  df_fa_mid,        \* splitter: address table returned by the first call
  df_r_mid,         \* splitter: relationship table returned by the first call
  threshold,        \* fuzzy: <<numerator, denominator>> of the ratio threshold
  rule,             \* fuzzy: "street" or "city"
  rows,             \* fuzzy: the rows of one grouping key
  norms,            \* fuzzy: the normalized variants, as handed to UnionFind
  par,              \* fuzzy: UnionFind.par
  rank,             \* fuzzy: UnionFind.rank
  visited,          \* fuzzy: the pairs already compared
  clusters,         \* fuzzy: UnionFind.clusters()
  fproposals,       \* fuzzy: the proposals the rule returns
  ran,              \* main: the rules that have returned, in order
  raised            \* main: the ValueError a rule raised, if any: <<>> or <<e>>

vars == <<pc, df_fa_in, df_r_in, df_fa, df_r, proposals, max_aid_in,
          current_max_aid, splits, bucket, bpos, val2eids, vpos, idx0,
          calls, df_fa_mid, df_r_mid,
          threshold, rule, rows, norms, par, rank, visited, clusters,
          fproposals, ran, raised>>

tableVars    == <<df_fa_in, df_r_in, df_fa, df_r>>
resolverVars == <<proposals, max_aid_in, current_max_aid, splits, bucket,
                  bpos, val2eids, vpos, idx0>>
splitterVars == <<calls, df_fa_mid, df_r_mid>>
fuzzyVars    == <<threshold, rule, rows, norms, par, rank, visited, clusters,
                  fproposals>>
mainVars     == <<ran, raised>>

\* NaN is a one-element tuple, so that it compares with strings and equals none.
NaN  == <<"nan">>
None == "None"

----------------------------------------------------------------------------
(* Strings *)

Alphabet == <<" ", "0", "1", "2", "3", "4", "5", "6", "7", "8", "9", "A",
              "B", "C", "D", "E", "F", "G", "H", "I", "J", "K", "L", "M",
              "N", "O", "P", "Q", "R", "S", "T", "U", "V", "W", "X", "Y",
              "Z", "_", "a", "b", "c", "d", "e", "f", "g", "h", "i", "j",
              "k", "l", "m", "n", "o", "p", "q", "r", "s", "t", "u", "v",
              "w", "x", "y", "z">>

Ord(c) == CHOOSE i \in 1..Len(Alphabet) : Alphabet[i] = c

UpperCase == <<"A", "B", "C", "D", "E", "F", "G", "H", "I", "J", "K", "L",
               "M", "N", "O", "P", "Q", "R", "S", "T", "U", "V", "W", "X",
               "Y", "Z">>
LowerCase == <<"a", "b", "c", "d", "e", "f", "g", "h", "i", "j", "k", "l",
               "m", "n", "o", "p", "q", "r", "s", "t", "u", "v", "w", "x",
               "y", "z">>

\* Python's str < str: the first differing character decides, a proper
\* prefix is smaller.
RECURSIVE StrLess(_, _)
StrLess(a, b) ==
  IF b = <<>> THEN FALSE
  ELSE IF a = <<>> THEN TRUE
  ELSE IF Head(a) # Head(b) THEN Ord(Head(a)) < Ord(Head(b))
  ELSE StrLess(Tail(a), Tail(b))

\* Python's tuple comparison (n1, s1) > (n2, s2).
KeyGreater(n1, s1, n2, s2) ==
  n1 > n2 \/ (n1 = n2 /\ StrLess(s2, s1))

LowerChar(c) ==
  IF \E i \in 1..Len(UpperCase) : UpperCase[i] = c
  THEN LowerCase[CHOOSE i \in 1..Len(UpperCase) : UpperCase[i] = c]
  ELSE c

Lower(s) == [i \in 1..Len(s) |-> LowerChar(s[i])]

RECURSIVE LStrip(_)
LStrip(s) == IF s # <<>> /\ Head(s) = " " THEN LStrip(Tail(s)) ELSE s

RECURSIVE RStrip(_)
RStrip(s) ==
  IF s # <<>> /\ s[Len(s)] = " " THEN RStrip(SubSeq(s, 1, Len(s) - 1)) ELSE s

Strip(s) == RStrip(LStrip(s))

\* sep.join(parts)
RECURSIVE JoinWith(_, _)
JoinWith(sep, parts) ==
  IF parts = <<>> THEN <<>>
  ELSE IF Len(parts) = 1 THEN parts[1]
  ELSE parts[1] \o <<sep>> \o JoinWith(sep, Tail(parts))

InSeq(x, s) == \E i \in 1..Len(s) : s[i] = x

Range(s) == {s[i] : i \in 1..Len(s)}

----------------------------------------------------------------------------
(* Tables *)

HasFull(fa) == \A i \in 1..Len(fa) : "fullAddress_c" \in DOMAIN fa[i]

AddressParts == <<"num1_c", "streetName_c", "city_c", "state_c", "zip_c">>

\* reconstruct_full_address: the non-missing, non-empty parts joined by one
\* blank, stripped.
reconstruct_full_address(row) ==
  LET present == {i \in 1..Len(AddressParts) :
                    row[AddressParts[i]] # NaN /\ row[AddressParts[i]] # <<>>}
      parts == [k \in 1..Cardinality(present) |->
                  row[AddressParts[
                    CHOOSE i \in present :
                      Cardinality({j \in present : j < i}) = k - 1]]]
  IN Strip(JoinWith(" ", parts))

\* df_fa.index[df_fa["AID"] == aid]
AidIndex(fa, aid) == {i \in 1..Len(fa) : fa[i].AID = aid}

MinOf(S) == CHOOSE x \in S : \A y \in S : x <= y
MaxOf(S) == CHOOSE x \in S : \A y \in S : x >= y

\* df_fa["AID"].max()
MaxAid(fa) == MaxOf({fa[i].AID : i \in 1..Len(fa)})

\* Python's ==, on values that are strings or NaN: NaN equals nothing.
PyEq(a, b) == a # NaN /\ b # NaN /\ a = b

\* pd.isna
IsNa(a) == a = NaN

----------------------------------------------------------------------------
(* resolve_and_apply_changes *)

\* bucket[(p["original_AID"], p["column_to_change"])].append(p): a dict in
\* insertion order, as a sequence of [aid, col, items].
RECURSIVE BucketFold(_, _)
BucketFold(ps, acc) ==
  IF ps = <<>> THEN acc
  ELSE LET p == Head(ps)
           hit == {i \in 1..Len(acc) : acc[i].aid = p.original_AID
                                        /\ acc[i].col = p.column_to_change}
       IN IF hit = {}
          THEN BucketFold(Tail(ps),
                 Append(acc, [aid |-> p.original_AID,
                              col |-> p.column_to_change,
                              items |-> <<p>>]))
          ELSE LET i == CHOOSE j \in hit : TRUE
               IN BucketFold(Tail(ps),
                    [acc EXCEPT ![i].items = Append(@, p)])

\* The supporter list of one value grows by a context it does not hold yet.
AddSupporter(eids, ctx) == IF InSeq(ctx, eids) THEN eids ELSE Append(eids, ctx)

\* val2eids: proposed value -> list of distinct contexts, in insertion order,
\* as a sequence of [val, eids].
RECURSIVE Val2EidsFold(_, _)
Val2EidsFold(items, acc) ==
  IF items = <<>> THEN acc
  ELSE LET p == Head(items)
           hit == {i \in 1..Len(acc) : acc[i].val = p.proposed_value}
       IN IF hit = {}
          THEN Val2EidsFold(Tail(items),
                 Append(acc, [val |-> p.proposed_value,
                              eids |-> AddSupporter(<<>>, p.EID_context)]))
          ELSE LET i == CHOOSE j \in hit : TRUE
               IN Val2EidsFold(Tail(items),
                    [acc EXCEPT ![i].eids = AddSupporter(@, p.EID_context)])

Val2Eids(items) == Val2EidsFold(items, <<>>)

\* The key without its tie-break: (len(x[1]),).
MajorityKeyCountOnly(x, y) == Len(x.eids) > Len(y.eids)

\* The key max() ranks one val2eids item by: (len(x[1]), str(x[0])).
MajorityKeyGreater(x, y) ==
  KeyGreater(Len(x.eids), x.val, Len(y.eids), y.val)

\* max(val2eids.items(), key=...)[0]: the first item no later one beats.
RECURSIVE MaxItem(_, _)
MaxItem(its, best) ==
  IF its = <<>> THEN best
  ELSE IF MajorityKeyGreater(Head(its), best) THEN MaxItem(Tail(its), Head(its))
  ELSE MaxItem(Tail(its), best)

MajorityVal(v2e) == MaxItem(Tail(v2e), Head(v2e)).val

\* The inner loop without its continue.
IsMajorityNever(v2e, v) == FALSE

\* if variant_val == majority_val: continue
IsMajority(v2e, v) == PyEq(v, MajorityVal(v2e))

\* The counter left where it stands.
NextAidNoIncrement(cur) == cur

\* current_max_aid += 1; new_aid = current_max_aid
NextAid(cur) == cur + 1

\* df_fa.at[idx[0], col] = v, then the derived field when the table has it.
SetCell(fa, i, col, v) ==
  LET row1 == [fa[i] EXCEPT ![col] = v]
      row2 == IF HasFull(fa)
              THEN [row1 EXCEPT !["fullAddress_c"] = reconstruct_full_address(row1)]
              ELSE row1
  IN [fa EXCEPT ![i] = row2]

\* The clone taken from the table as it was given, not as it stands.
NewRowFromInput(fa, i, col, new_aid, v) ==
  LET row1 == [df_fa_in[i] EXCEPT !["AID"] = new_aid, ![col] = v]
  IN IF HasFull(fa)
     THEN [row1 EXCEPT !["fullAddress_c"] = reconstruct_full_address(row1)]
     ELSE row1

\* new_row: the row at idx[0] under the new AID with the variant's value.
NewRow(fa, i, col, new_aid, v) ==
  LET row1 == [fa[i] EXCEPT !["AID"] = new_aid, ![col] = v]
  IN IF HasFull(fa)
     THEN [row1 EXCEPT !["fullAddress_c"] = reconstruct_full_address(row1)]
     ELSE row1

\* supporter_set = set([s for s in supporters if s is not None])
SupporterSet(eids) == Range(eids) \ {None}

\* The mask without its AID test.
RepointAnyAid(r, aid, eids, new_aid) ==
  [i \in 1..Len(r) |->
     IF r[i].EID_1 \in (Range(eids) \ {None})
     THEN [r[i] EXCEPT !.AID_2 = new_aid]
     ELSE r[i]]

\* df_r.loc[(df_r["AID_2"] == aid) & df_r["EID_1"].isin(supporter_set),
\*          "AID_2"] = new_aid
Repoint(r, aid, eids, new_aid) ==
  [i \in 1..Len(r) |->
     IF r[i].AID_2 = aid /\ r[i].EID_1 \in SupporterSet(eids)
     THEN [r[i] EXCEPT !.AID_2 = new_aid]
     ELSE r[i]]

\* SplitEvent(old_aid, new_aid, column, new_value=str(variant_val))
SplitEvent(aid, new_aid, col, v) ==
  [old_aid |-> aid, new_aid |-> new_aid, column |-> col, new_value |-> v]

----------------------------------------------------------------------------
(* The resolver's inputs *)

\* Proposal lists: up to MaxProps proposals from the whole pool, up to
\* MaxPropsLive from the pool of proposals for the live AID with an entity
\* context, and up to MaxPropsBlank proposals of the empty string for the
\* AIDs of the table.
MaxProps == 3
MaxPropsLive == 4
MaxPropsBlank == 2

V2020 == <<"2", "0", "2", "0">>
V2021 == <<"2", "0", "2", "1">>
V9    == <<"9">>

ProposedValues == {V2020, V2021, V9}
Contexts       == {"E1", "E2", None}
TargetAids     == {100, 555}
TargetCols     == {"zip_c", "city_c"}

BaseRows ==
  << [AID |-> 100, num1_c |-> <<"1", "2">>, streetName_c |-> <<"M", "a", "i", "n">>,
      streetSuffix_c |-> <<"S", "t">>, unit_c |-> NaN,
      city_c |-> NaN, state_c |-> <<"N", "Y">>, zip_c |-> V2020],
     [AID |-> 101, num1_c |-> <<"3">>, streetName_c |-> <<"O", "a", "k">>,
      streetSuffix_c |-> <<"R", "d">>, unit_c |-> <<"2">>,
      city_c |-> <<"T", "r", "o", "y">>, state_c |-> <<"N", "Y">>, zip_c |-> <<>>] >>

WithFull(fa) ==
  [i \in 1..Len(fa) |->
     [f \in DOMAIN fa[i] \cup {"fullAddress_c"} |->
        IF f = "fullAddress_c" THEN reconstruct_full_address(fa[i])
        ELSE fa[i][f]]]

AddressTables == {BaseRows, WithFull(BaseRows)}

BaseRelationships ==
  << [EID_1 |-> "E1", AID_2 |-> 100, relationshipType |-> "owner",  number |-> 1],
     [EID_1 |-> "E2", AID_2 |-> 100, relationshipType |-> "tenant", number |-> 1],
     [EID_1 |-> "E2", AID_2 |-> 100, relationshipType |-> "owner",  number |-> 2],
     [EID_1 |-> "E1", AID_2 |-> 101, relationshipType |-> "owner",  number |-> 2] >>

ProposalPool ==
  [original_AID : TargetAids, EID_context : Contexts,
   column_to_change : TargetCols, proposed_value : ProposedValues]

LivePool ==
  {p \in ProposalPool : p.original_AID = 100 /\ p.EID_context # None}

\* The empty string proposed for a cell of either row: AID 100 holds a
\* missing city, AID 101 an empty ZIP.
BlankPool ==
  [original_AID : {100, 101}, EID_context : Contexts,
   column_to_change : TargetCols, proposed_value : {<<>>}]

ProposalLists ==
  UNION ({[1..n -> ProposalPool] : n \in 0..MaxProps}
         \cup {[1..n -> LivePool] : n \in 0..MaxPropsLive}
         \cup {[1..n -> BlankPool] : n \in 0..MaxPropsBlank})

IdleResolver ==
  /\ proposals = <<>> /\ max_aid_in = 0 /\ current_max_aid = 0
  /\ splits = <<>> /\ bucket = <<>> /\ bpos = 0 /\ val2eids = <<>>
  /\ vpos = 0 /\ idx0 = 0

IdleSplitter == calls = 0 /\ df_fa_mid = <<>> /\ df_r_mid = <<>>

IdleMain == ran = <<>> /\ raised = <<>>

IdleFuzzy ==
  /\ threshold = <<0, 1>> /\ rule = "none" /\ rows = <<>> /\ norms = <<>>
  /\ par = <<>> /\ rank = <<>> /\ visited = {} /\ clusters = <<>>
  /\ fproposals = <<>>

\* main hands the resolver the loaded tables and df_fa["AID"].max().
InitResolve ==
  /\ pc = "start"
  /\ df_fa_in \in AddressTables
  /\ df_r_in = BaseRelationships
  /\ df_fa = df_fa_in
  /\ df_r = df_r_in
  /\ proposals \in ProposalLists
  /\ max_aid_in = MaxAid(df_fa_in)
  /\ current_max_aid = max_aid_in
  /\ splits = <<>> /\ bucket = <<>> /\ bpos = 0 /\ val2eids = <<>>
  /\ vpos = 0 /\ idx0 = 0
  /\ IdleSplitter /\ IdleFuzzy /\ IdleMain

\* lines 146-148: the proposals are bucketed by (AID, column).
Bucketize ==
  /\ pc = "start"
  /\ bucket' = BucketFold(proposals, <<>>)
  /\ bpos' = 1
  /\ pc' = "loop"
  /\ UNCHANGED <<tableVars, proposals, max_aid_in, current_max_aid, splits,
                 val2eids, vpos, idx0, splitterVars, mainVars, fuzzyVars>>

InLoop == pc = "loop" /\ bpos <= Len(bucket)

\* The stale partition ending the loop instead of continuing it.
StalePartitionBreaks ==
  /\ InLoop
  /\ AidIndex(df_fa, bucket[bpos].aid) = {}
  /\ bpos' = Len(bucket) + 1
  /\ UNCHANGED <<pc, tableVars, proposals, max_aid_in, current_max_aid, splits,
                 bucket, val2eids, vpos, idx0, splitterVars, mainVars, fuzzyVars>>

\* lines 158-160: the partition's AID is not in the table.
StalePartition ==
  /\ InLoop
  /\ AidIndex(df_fa, bucket[bpos].aid) = {}
  /\ bpos' = bpos + 1
  /\ UNCHANGED <<pc, tableVars, proposals, max_aid_in, current_max_aid, splits,
                 bucket, val2eids, vpos, idx0, splitterVars, mainVars, fuzzyVars>>

\* lines 164-171: one distinct value.
ApplySingle ==
  /\ InLoop
  /\ AidIndex(df_fa, bucket[bpos].aid) # {}
  /\ LET b == bucket[bpos]
         v2e == Val2Eids(b.items)
         i == MinOf(AidIndex(df_fa, b.aid))
         cur_val == df_fa[i][b.col]
         new_val == v2e[1].val
     IN /\ Len(v2e) = 1
        /\ df_fa' = IF (IsNa(cur_val) /\ IsNa(new_val)) \/ PyEq(cur_val, new_val)
                    THEN df_fa
                    ELSE SetCell(df_fa, i, b.col, new_val)
  /\ bpos' = bpos + 1
  /\ UNCHANGED <<pc, df_fa_in, df_r_in, df_r, proposals, max_aid_in,
                 current_max_aid, splits, bucket, val2eids, vpos, idx0,
                 splitterVars, mainVars, fuzzyVars>>

\* lines 175-179: two or more distinct values; the majority goes in place.
ApplyMajority ==
  /\ InLoop
  /\ AidIndex(df_fa, bucket[bpos].aid) # {}
  /\ LET b == bucket[bpos]
         v2e == Val2Eids(b.items)
         i == MinOf(AidIndex(df_fa, b.aid))
         cur_val == df_fa[i][b.col]
         majority_val == MajorityVal(v2e)
     IN /\ Len(v2e) >= 2
        /\ df_fa' = IF ~PyEq(cur_val, majority_val)
                    THEN SetCell(df_fa, i, b.col, majority_val)
                    ELSE df_fa
        /\ val2eids' = v2e
        /\ idx0' = i
  /\ vpos' = 1
  /\ pc' = "minority"
  /\ UNCHANGED <<df_fa_in, df_r_in, df_r, proposals, max_aid_in,
                 current_max_aid, splits, bucket, bpos, splitterVars, mainVars,
                 fuzzyVars>>

InMinority == pc = "minority" /\ vpos <= Len(val2eids)

\* lines 183-184: the majority's own entry is passed over.
SkipMajority ==
  /\ InMinority
  /\ IsMajority(val2eids, val2eids[vpos].val)
  /\ vpos' = vpos + 1
  /\ UNCHANGED <<pc, tableVars, proposals, max_aid_in, current_max_aid, splits,
                 bucket, bpos, val2eids, idx0, splitterVars, mainVars, fuzzyVars>>

\* lines 185-204: one minority value gets a new AID, a SplitEvent, a cloned
\* row and its supporters' relationship rows.
SplitMinority ==
  /\ InMinority
  /\ ~IsMajority(val2eids, val2eids[vpos].val)
  /\ LET b == bucket[bpos]
         variant == val2eids[vpos]
         new_aid == NextAid(current_max_aid)
     IN /\ current_max_aid' = new_aid
        /\ splits' = Append(splits, SplitEvent(b.aid, new_aid, b.col, variant.val))
        /\ df_fa' = Append(df_fa, NewRow(df_fa, idx0, b.col, new_aid, variant.val))
        /\ df_r' = Repoint(df_r, b.aid, variant.eids, new_aid)
  /\ vpos' = vpos + 1
  /\ UNCHANGED <<pc, df_fa_in, df_r_in, proposals, max_aid_in, bucket, bpos,
                 val2eids, idx0, splitterVars, mainVars, fuzzyVars>>

\* The inner loop is exhausted: on to the next partition.
EndPartition ==
  /\ pc = "minority"
  /\ vpos > Len(val2eids)
  /\ pc' = "loop"
  /\ bpos' = bpos + 1
  /\ UNCHANGED <<tableVars, proposals, max_aid_in, current_max_aid, splits,
                 bucket, val2eids, vpos, idx0, splitterVars, mainVars, fuzzyVars>>

\* line 206: return df_fa, df_r, current_max_aid, splits
Return ==
  /\ pc = "loop"
  /\ bpos > Len(bucket)
  /\ pc' = "done"
  /\ UNCHANGED <<tableVars, resolverVars, splitterVars, mainVars, fuzzyVars>>

NextResolve ==
  \/ Bucketize
  \/ StalePartition
  \/ ApplySingle
  \/ ApplyMajority
  \/ SkipMajority
  \/ SplitMinority
  \/ EndPartition
  \/ Return

SpecResolve == InitResolve /\ [][NextResolve]_vars

----------------------------------------------------------------------------
(* split_conflicting_addresses *)

signature_cols == <<"num1_c", "streetName_c", "streetSuffix_c", "unit_c",
                    "zip_c", "city_c", "state_c">>

\* .astype(str) on one cell: the missing value prints as "nan".
AsStr(v) == IF v = NaN THEN <<"n", "a", "n">> ELSE v

\* lines 88-96: the row's EID and, through the left merge on AID_2 = AID,
\* the signature columns of its address row (all missing when the table has
\* no such AID), joined by "|".
Signature(fa, row) ==
  LET hit == AidIndex(fa, row.AID_2)
      cell(c) == IF hit = {} THEN NaN ELSE fa[MinOf(hit)][c]
  IN JoinWith("|", <<(<<row.EID_1>>)>> \o
                   [k \in 1..Len(signature_cols) |-> AsStr(cell(signature_cols[k]))])

\* Series.unique(): the distinct elements in order of first appearance.
RECURSIVE Unique(_, _)
Unique(s, acc) ==
  IF s = <<>> THEN acc
  ELSE Unique(Tail(s), IF InSeq(Head(s), acc) THEN acc ELSE Append(acc, Head(s)))

\* df_r.loc[df_r["AID_2"] == aid, "signature"]
RECURSIVE SignaturesAt(_, _, _)
SignaturesAt(fa, r, aid) ==
  IF r = <<>> THEN <<>>
  ELSE IF Head(r).AID_2 = aid
       THEN <<Signature(fa, Head(r))>> \o SignaturesAt(fa, Tail(r), aid)
       ELSE SignaturesAt(fa, Tail(r), aid)

\* A set of integers in ascending order, as groupby orders its index.
RECURSIVE Ascending(_)
Ascending(S) ==
  IF S = {} THEN <<>> ELSE <<MinOf(S)>> \o Ascending(S \ {MinOf(S)})

\* lines 99-101: the AIDs with more than one distinct signature.
BadAids(fa, r) ==
  Ascending({a \in {r[i].AID_2 : i \in 1..Len(r)} :
               Len(Unique(SignaturesAt(fa, r, a), <<>>)) > 1})

\* The counter stuck: next_aid += 1 left out.
SplitNextAidStuck(n) == n

\* line 112: next_aid += 1
SplitNextAid(n) == n + 1

\* lines 110-112: every signature of one bad AID gets the next AID.
RECURSIVE RemapSigs(_, _, _)
RemapSigs(aid, sigs, next_aid) ==
  IF sigs = <<>> THEN <<>>
  ELSE <<[aid |-> aid, sig |-> Head(sigs), new_aid |-> next_aid]>>
       \o RemapSigs(aid, Tail(sigs), SplitNextAid(next_aid))

\* lines 105-112: remap, a dict in insertion order, as a sequence of
\* [aid, sig, new_aid].
RECURSIVE RemapFold(_, _, _, _)
RemapFold(fa, r, aids, acc) ==
  IF aids = <<>> THEN acc
  ELSE LET next_aid == IF acc = <<>> THEN MaxAid(fa) + 1
                       ELSE SplitNextAid(acc[Len(acc)].new_aid)
       IN RemapFold(fa, r, Tail(aids),
            acc \o RemapSigs(Head(aids),
                             Unique(SignaturesAt(fa, r, Head(aids)), <<>>),
                             next_aid))

Remap(fa, r) == RemapFold(fa, r, BadAids(fa, r), <<>>)

\* lines 114-116: remap.get((AID_2, signature), AID_2), row by row.
RemapRows(fa, r, remap) ==
  [i \in 1..Len(r) |->
     LET hit == {k \in 1..Len(remap) : remap[k].aid = r[i].AID_2
                                       /\ remap[k].sig = Signature(fa, r[i])}
     IN IF hit = {} THEN r[i]
        ELSE [r[i] EXCEPT !.AID_2 = remap[CHOOSE k \in hit : TRUE].new_aid]]

\* lines 119-123: one clone of the old AID's first row per remap entry.
Additions(fa, remap) ==
  [k \in 1..Len(remap) |->
     [fa[MinOf(AidIndex(fa, remap[k].aid))] EXCEPT !.AID = remap[k].new_aid]]

\* line 121: .iloc[0] of an empty selection raises IndexError.
CloneRaises(fa, remap) ==
  \E k \in 1..Len(remap) : AidIndex(fa, remap[k].aid) = {}

----------------------------------------------------------------------------
(* The splitter's inputs *)

MaxRel == 4
MaxCalls == 2

\* 100 and 101 are rows of the address table; 102 is not.
RelAids == {100, 101, 102}
RelEids == {"E1", "E2", "E3"}

RelationshipTables ==
  UNION {{[i \in 1..n |-> [EID_1 |-> f[i][1], AID_2 |-> f[i][2],
                           relationshipType |-> "owner", number |-> i]] :
            f \in [1..n -> RelEids \X RelAids]} : n \in 0..MaxRel}

\* The address table is keyed by AID: no AID twice.
InitSplit ==
  /\ pc = "call"
  /\ df_fa_in \in AddressTables
  /\ df_r_in \in RelationshipTables
  /\ df_fa = df_fa_in
  /\ df_r = df_r_in
  /\ calls = 0 /\ df_fa_mid = <<>> /\ df_r_mid = <<>>
  /\ IdleResolver /\ IdleFuzzy /\ IdleMain

CanCall == pc = "call" /\ calls < MaxCalls

\* What a returning call leaves: the tables become the next call's inputs.
Returned(fa, r) ==
  /\ df_fa' = fa
  /\ df_r' = r
  /\ calls' = calls + 1
  /\ df_fa_mid' = IF calls = 0 THEN fa ELSE df_fa_mid
  /\ df_r_mid' = IF calls = 0 THEN r ELSE df_r_mid
  /\ UNCHANGED <<pc, df_fa_in, df_r_in, resolverVars, fuzzyVars, mainVars>>

\* lines 102-103: no AID with two signatures; the tables go back as they are.
SplitNothing ==
  /\ CanCall
  /\ BadAids(df_fa, df_r) = <<>>
  /\ Returned(df_fa, df_r)

\* lines 105-128: the whole call when some AID has two signatures.
SplitConflicts ==
  /\ CanCall
  /\ BadAids(df_fa, df_r) # <<>>
  /\ LET remap == Remap(df_fa, df_r)
     IN /\ ~CloneRaises(df_fa, remap)
        /\ Returned(df_fa \o Additions(df_fa, remap),
                    RemapRows(df_fa, df_r, remap))

\* line 121 raises: the call returns nothing.
SplitRaises ==
  /\ CanCall
  /\ BadAids(df_fa, df_r) # <<>>
  /\ CloneRaises(df_fa, Remap(df_fa, df_r))
  /\ pc' = "raised"
  /\ UNCHANGED <<tableVars, splitterVars, mainVars, resolverVars, fuzzyVars>>

NextSplit == SplitNothing \/ SplitConflicts \/ SplitRaises

SpecSplit == InitSplit /\ [][NextSplit]_vars

----------------------------------------------------------------------------
(* helpers.UnionFind, on positions 1..n of the element list *)

\* _find's result: the root of i.
RECURSIVE Root(_, _)
Root(p, i) == IF p[i] # i THEN Root(p, p[i]) ELSE i

\* _find's effect: every node on the path from i points at the root.
RECURSIVE Compress(_, _)
Compress(p, i) ==
  IF p[i] # i
  THEN LET q == Compress(p, p[i]) IN [q EXCEPT ![i] = q[p[i]]]
  ELSE p

\* union that hangs the element a, not its root, under b's root.
UnionLinksElement(uf, a, b) ==
  LET p1 == Compress(uf.par, a)
      ra == Root(uf.par, a)
      p2 == Compress(p1, b)
      rb == Root(p1, b)
  IN IF ra = rb THEN [par |-> p2, rank |-> uf.rank]
     ELSE [par |-> [p2 EXCEPT ![a] = rb], rank |-> uf.rank]

\* UnionFind.union
Union(uf, a, b) ==
  LET p1 == Compress(uf.par, a)
      ra == Root(uf.par, a)
      p2 == Compress(p1, b)
      rb == Root(p1, b)
  IN IF ra = rb THEN [par |-> p2, rank |-> uf.rank]
     ELSE IF uf.rank[ra] < uf.rank[rb]
          THEN [par |-> [p2 EXCEPT ![ra] = rb], rank |-> uf.rank]
     ELSE IF uf.rank[ra] > uf.rank[rb]
          THEN [par |-> [p2 EXCEPT ![rb] = ra], rank |-> uf.rank]
     ELSE [par |-> [p2 EXCEPT ![rb] = ra],
           rank |-> [uf.rank EXCEPT ![ra] = @ + 1]]

\* UnionFind.clusters: root -> members, a dict in insertion order, as a
\* sequence of [root, members]; each _find compresses as it goes.
RECURSIVE ClustersFold(_, _, _, _)
ClustersFold(elems, p, i, out) ==
  IF i > Len(elems) THEN [par |-> p, out |-> out]
  ELSE LET r == Root(p, i)
           q == Compress(p, i)
           hit == {k \in 1..Len(out) : out[k].root = r}
       IN IF hit = {}
          THEN ClustersFold(elems, q, i + 1,
                 Append(out, [root |-> r, members |-> <<elems[i]>>]))
          ELSE ClustersFold(elems, q, i + 1,
                 [out EXCEPT ![CHOOSE k \in hit : TRUE].members =
                    Append(@, elems[i])])

----------------------------------------------------------------------------
(* The fuzzy rules *)

Min2(a, b) == IF a <= b THEN a ELSE b
Max2(a, b) == IF a >= b THEN a ELSE b

\* One row of the edit-distance table: prev is the row above, ca the
\* character of a this row stands for.
RECURSIVE LevRow(_, _, _, _)
LevRow(prev, ca, b, cur) ==
  IF Len(cur) = Len(b) + 1 THEN cur
  ELSE LET j == Len(cur)
           sub == prev[j] + (IF ca = b[j] THEN 0 ELSE 1)
       IN LevRow(prev, ca, b,
            Append(cur, Min2(Min2(prev[j + 1] + 1, cur[j] + 1), sub)))

RECURSIVE LevRows(_, _, _)
LevRows(a, b, prev) ==
  IF a = <<>> THEN prev
  ELSE LevRows(Tail(a), b, LevRow(prev, Head(a), b, <<prev[1] + 1>>))

\* rapidfuzz's Levenshtein.distance: insertions, deletions and
\* substitutions, each of weight one.
Levenshtein(a, b) ==
  LevRows(a, b, [j \in 1..Len(b) + 1 |-> j - 1])[Len(b) + 1]

\* The shorter length taken for the longer.
ShorterOf(len1, len2) == Min2(len1, len2)

\* longer = max(len1, len2)
Longer(len1, len2) == Max2(len1, len2)

Abs(x) == IF x < 0 THEN 0 - x ELSE x

\* x / y >= threshold and x / y < threshold, the threshold t = <<n, d>>
\* standing for n/d.
RatioAtLeast(x, y, t) == x * t[2] >= t[1] * y
RatioBelow(x, y, t)   == x * t[2] < t[1] * y

\* fuzzy_search.py line 69: diff and diff / longer >= threshold and diff > 2
PrunedStreet(s1, s2, t) ==
  LET diff == Abs(Len(s1) - Len(s2))
      longer == Longer(Len(s1), Len(s2))
  IN diff # 0 /\ RatioAtLeast(diff, longer, t) /\ diff > 2

\* fuzzy_search_cities.py line 68
PrunedCity(s1, s2, t) ==
  LET longer == Longer(Len(s1), Len(s2))
  IN Abs(Len(s1) - Len(s2)) > 2
     /\ RatioAtLeast(Abs(Len(s1) - Len(s2)), longer, t)

\* The reject on any difference in length, the ratio left out.
PrunedAnyDiff(r, s1, s2, t) == Len(s1) # Len(s2)

\* The cheap reject of the rule r.
Pruned(r, s1, s2, t) ==
  IF r = "street" THEN PrunedStreet(s1, s2, t) ELSE PrunedCity(s1, s2, t)

\* .str.strip().str.lower()
Normalize(v) == Lower(Strip(v))

\* list.sort(key=len): a stable insertion by length.
RECURSIVE InsertByLen(_, _)
InsertByLen(sorted, x) ==
  IF sorted = <<>> THEN <<x>>
  ELSE IF Len(x) < Len(Head(sorted)) THEN <<x>> \o sorted
  ELSE <<Head(sorted)>> \o InsertByLen(Tail(sorted), x)

RECURSIVE SortByLen(_, _)
SortByLen(s, acc) ==
  IF s = <<>> THEN acc ELSE SortByLen(Tail(s), InsertByLen(acc, Head(s)))

\* g["street_norm"].unique().tolist()
RowNorms(rs) == Unique([i \in 1..Len(rs) |-> Normalize(rs[i].orig)], <<>>)

\* freq: how many rows of the group carry the original spelling v.
Freq(rs, v) == Cardinality({i \in 1..Len(rs) : rs[i].orig = v})

\* max(originals, key=lambda v: (freq.get(v, 0), v))
RECURSIVE BestOf(_, _, _)
BestOf(rs, originals, best) ==
  IF originals = <<>> THEN best
  ELSE IF KeyGreater(Freq(rs, Head(originals)), Head(originals),
                     Freq(rs, best), best)
       THEN BestOf(rs, Tail(originals), Head(originals))
       ELSE BestOf(rs, Tail(originals), best)

\* g[g["street_norm"].isin(cluster_norms)]: positions of the cluster's rows.
RECURSIVE ClusterRows(_, _, _)
ClusterRows(rs, members, i) ==
  IF i > Len(rs) THEN <<>>
  ELSE IF InSeq(Normalize(rs[i].orig), members)
       THEN <<i>> \o ClusterRows(rs, members, i + 1)
       ELSE ClusterRows(rs, members, i + 1)

Originals(rs, at) == Unique([k \in 1..Len(at) |-> rs[at[k]].orig], <<>>)

Proposal(aid, ctx, col, cur, new) ==
  [original_AID |-> aid, EID_context |-> ctx, column_to_change |-> col,
   original_value |-> cur, proposed_value |-> new]

\* fuzzy_search.py lines 85-97: one proposal per row not spelled best.
RECURSIVE NeedsFix(_, _, _, _)
NeedsFix(rs, at, best, eid) ==
  IF at = <<>> THEN <<>>
  ELSE IF rs[Head(at)].orig # best
       THEN <<Proposal(rs[Head(at)].AID, eid, "streetName_c",
                       rs[Head(at)].orig, best)>>
            \o NeedsFix(rs, Tail(at), best, eid)
       ELSE NeedsFix(rs, Tail(at), best, eid)

\* fuzzy_search.py lines 75-97, cluster by cluster.
RECURSIVE StreetProposals(_, _, _)
StreetProposals(rs, cl, eid) ==
  IF cl = <<>> THEN <<>>
  ELSE LET at == ClusterRows(rs, Head(cl).members, 1)
           originals == Originals(rs, at)
       IN IF Len(originals) <= 1 THEN StreetProposals(rs, Tail(cl), eid)
          ELSE NeedsFix(rs, at, BestOf(rs, Tail(originals), Head(originals)), eid)
               \o StreetProposals(rs, Tail(cl), eid)

\* fuzzy_search_cities.py lines 73-84: canon_map, as a sequence of
\* [norm, canon]; clusters of one variant are passed over.
RECURSIVE CanonMap(_, _)
CanonMap(rs, cl) ==
  IF cl = <<>> THEN <<>>
  ELSE IF Len(Head(cl).members) = 1 THEN CanonMap(rs, Tail(cl))
  ELSE LET originals == Originals(rs, ClusterRows(rs, Head(cl).members, 1))
           best == BestOf(rs, Tail(originals), Head(originals))
       IN [k \in 1..Len(Head(cl).members) |->
             [norm |-> Head(cl).members[k], canon |-> best]]
          \o CanonMap(rs, Tail(cl))

\* fuzzy_search_cities.py lines 87-105, row by row.
RECURSIVE CityProposals(_, _, _)
CityProposals(rs, cm, i) ==
  IF i > Len(rs) THEN <<>>
  ELSE LET hit == {k \in 1..Len(cm) : cm[k].norm = Normalize(rs[i].orig)}
       IN IF hit # {} /\ cm[CHOOSE k \in hit : TRUE].canon # rs[i].orig
          THEN <<Proposal(rs[i].AID, None, "city_c", rs[i].orig,
                          cm[CHOOSE k \in hit : TRUE].canon)>>
               \o CityProposals(rs, cm, i + 1)
          ELSE CityProposals(rs, cm, i + 1)

----------------------------------------------------------------------------
(* The fuzzy rules' inputs: the rows of one grouping key, an (EID_1, num1_c)
   pair for the street rule, a valid ZIP for the city rule. *)

Springfield  == <<"S", "p", "r", "i", "n", "g", "f", "i", "e", "l", "d">>
Springfeild  == <<"S", "p", "r", "i", "n", "g", "f", "e", "i", "l", "d">>
Sprinfield   == <<"S", "p", "r", "i", "n", "f", "i", "e", "l", "d">>
SPRINGFIELD  == <<"S", "P", "R", "I", "N", "G", "F", "I", "E", "L", "D">>
Springfields == <<"S", "p", "r", "i", "n", "g", "f", "i", "e", "l", "d", "s">>
Oak   == <<"O", "a", "k">>
OakSp == <<"O", "A", "K", " ">>
Oat   == <<"O", "a", "t">>
Cat   == <<"C", "a", "t">>
Cab   == <<"C", "a", "b">>

LongSpellings  == {Springfield, Springfeild, Sprinfield, SPRINGFIELD,
                   Springfields, Oak}
ShortSpellings == {Oak, OakSp, Oat, Cat, Cab}

\* The distances between the normalized spellings, computed once.
DistanceTable ==
  [pr \in {Normalize(v) : v \in LongSpellings \cup ShortSpellings}
          \X {Normalize(v) : v \in LongSpellings \cup ShortSpellings} |->
     Levenshtein(pr[1], pr[2])] @@ <<>>

\* _distance / _dist
Distance(s1, s2) == DistanceTable[<<s1, s2>>]

\* _distance(s1, s2) / longer < threshold
Close(s1, s2, t) ==
  RatioBelow(Distance(s1, s2), Longer(Len(s1), Len(s2)), t)

\* Distinct spellings per group and rows per spelling, for the long and for
\* the short spellings.
MaxLongVariants  == 3
MaxLongCount     == 3
MaxShortVariants == 4
MaxShortCount    == 1

\* STREET_THRESHOLD = CITY_THRESHOLD = 0.10; 0.20 and 0.40 stand for other
\* values of the parameter.
LongThresholds  == {<<1, 10>>, <<1, 5>>}
ShortThresholds == {<<2, 5>>}

\* The sequences of up to n distinct elements of S.
Orders(S, n) ==
  UNION {{f \in [1..k -> S] : \A x, y \in 1..k : x # y => f[x] # f[y]} :
           k \in 0..n}

\* cnt[k] rows of order[k], spelling after spelling; the AIDs number the rows.
RECURSIVE Blocks(_, _, _)
Blocks(order, cnt, k) ==
  IF k > Len(order) THEN <<>>
  ELSE [x \in 1..cnt[k] |-> order[k]] \o Blocks(order, cnt, k + 1)

GroupRows(order, cnt) ==
  LET origs == Blocks(order, cnt, 1)
  IN [x \in 1..Len(origs) |-> [AID |-> 200 + x, orig |-> origs[x]]]

Groups(S, n, c) ==
  UNION {{GroupRows(order, cnt) : cnt \in [1..Len(order) -> 1..c]} :
           order \in Orders(S, n)}

GroupEid == "E1"

InitFuzzy ==
  /\ pc = "start"
  /\ rule \in {"street", "city"}
  /\ \/ /\ threshold \in LongThresholds
        /\ rows \in Groups(LongSpellings, MaxLongVariants, MaxLongCount)
     \/ /\ threshold \in ShortThresholds
        /\ rows \in Groups(ShortSpellings, MaxShortVariants, MaxShortCount)
  /\ norms = <<>> /\ par = <<>> /\ rank = <<>> /\ visited = {}
  /\ clusters = <<>> /\ fproposals = <<>>
  /\ df_fa_in = <<>> /\ df_r_in = <<>> /\ df_fa = <<>> /\ df_r = <<>>
  /\ IdleResolver /\ IdleSplitter /\ IdleMain

\* Fewer than two normalized variants: the group is passed over.
SkipGroup ==
  /\ pc = "start"
  /\ Len(RowNorms(rows)) < 2
  /\ pc' = "done"
  /\ UNCHANGED <<tableVars, resolverVars, splitterVars, mainVars, fuzzyVars>>

\* The variants are sorted by length and handed to UnionFind.
StartGroup ==
  /\ pc = "start"
  /\ Len(RowNorms(rows)) >= 2
  /\ norms' = SortByLen(RowNorms(rows), <<>>)
  /\ par' = [i \in 1..Len(RowNorms(rows)) |-> i]
  /\ rank' = [i \in 1..Len(RowNorms(rows)) |-> 0]
  /\ visited' = {}
  /\ pc' = "compare"
  /\ UNCHANGED <<tableVars, resolverVars, splitterVars, mainVars, threshold, rule, rows,
                 clusters, fproposals>>

\* The pairs the double loop visits; the loop takes them row by row, the
\* actions below in any order.
Pairs == {pr \in (1..Len(norms)) \X (1..Len(norms)) : pr[1] < pr[2]}

\* The cheap reject: the pair is passed over.
PrunePair ==
  /\ pc = "compare"
  /\ \E pr \in Pairs \ visited :
       /\ Pruned(rule, norms[pr[1]], norms[pr[2]], threshold)
       /\ visited' = visited \cup {pr}
  /\ UNCHANGED <<pc, tableVars, resolverVars, splitterVars, mainVars, threshold, rule,
                 rows, norms, par, rank, clusters, fproposals>>

\* The distance is computed and is not below the threshold.
LeaveApart ==
  /\ pc = "compare"
  /\ \E pr \in Pairs \ visited :
       /\ ~Pruned(rule, norms[pr[1]], norms[pr[2]], threshold)
       /\ ~Close(norms[pr[1]], norms[pr[2]], threshold)
       /\ visited' = visited \cup {pr}
  /\ UNCHANGED <<pc, tableVars, resolverVars, splitterVars, mainVars, threshold, rule,
                 rows, norms, par, rank, clusters, fproposals>>

\* The distance is below the threshold: uf.union(s1, s2).
UnionPair ==
  /\ pc = "compare"
  /\ \E pr \in Pairs \ visited :
       /\ ~Pruned(rule, norms[pr[1]], norms[pr[2]], threshold)
       /\ Close(norms[pr[1]], norms[pr[2]], threshold)
       /\ LET uf == Union([par |-> par, rank |-> rank], pr[1], pr[2])
          IN par' = uf.par /\ rank' = uf.rank
       /\ visited' = visited \cup {pr}
  /\ UNCHANGED <<pc, tableVars, resolverVars, splitterVars, mainVars, threshold, rule,
                 rows, norms, clusters, fproposals>>

\* uf.clusters(), once every pair was visited.
MakeClusters ==
  /\ pc = "compare"
  /\ visited = Pairs
  /\ LET c == ClustersFold(norms, par, 1, <<>>)
     IN par' = c.par /\ clusters' = c.out
  /\ pc' = "propose"
  /\ UNCHANGED <<tableVars, resolverVars, splitterVars, mainVars, threshold, rule, rows,
                 norms, rank, visited, fproposals>>

ProposeStreet ==
  /\ pc = "propose"
  /\ rule = "street"
  /\ fproposals' = StreetProposals(rows, clusters, GroupEid)
  /\ pc' = "done"
  /\ UNCHANGED <<tableVars, resolverVars, splitterVars, mainVars, threshold, rule, rows,
                 norms, par, rank, visited, clusters>>

ProposeCity ==
  /\ pc = "propose"
  /\ rule = "city"
  /\ fproposals' = CityProposals(rows, CanonMap(rows, clusters), 1)
  /\ pc' = "done"
  /\ UNCHANGED <<tableVars, resolverVars, splitterVars, mainVars, threshold, rule, rows,
                 norms, par, rank, visited, clusters>>

NextFuzzy ==
  \/ SkipGroup
  \/ StartGroup
  \/ PrunePair
  \/ LeaveApart
  \/ UnionPair
  \/ MakeClusters
  \/ ProposeStreet
  \/ ProposeCity

SpecFuzzy == InitFuzzy /\ [][NextFuzzy]_vars

----------------------------------------------------------------------------
(* Properties of the fuzzy rules.  The reference notions are read off the set
   of the group's normalized variants, so they depend neither on the rows'
   order nor on the order the pairs are visited in. *)

VariantSet == {Normalize(rows[i].orig) : i \in 1..Len(rows)}

\* The pair is compared and found below the threshold.
Linked(a, b) == ~Pruned(rule, a, b, threshold) /\ Close(a, b, threshold)

\* Everything reachable from S along links, in either direction.
RECURSIVE Reach(_)
Reach(S) ==
  LET T == S \cup {b \in VariantSet : \E a \in S : Linked(a, b) \/ Linked(b, a)}
  IN IF T = S THEN S ELSE Reach(T)

Components == {Reach({a}) : a \in VariantSet}

\* The partition clusters() returned.
ClusterSets == {Range(clusters[k].members) : k \in 1..Len(clusters)}

Clustered == pc \in {"propose", "done"} /\ Len(RowNorms(rows)) >= 2

\* C8: whatever the order of the rows' variants and the order the pairs were
\* visited in, clusters() returns the connected components of the link
\* relation on the set of variants.
C8_OrderIndependent == Clustered => ClusterSets = Components

\* Four variants in one cluster, built from two unions of singletons and one
\* of the two pairs (a rank of 2), with a link missing between two members.
C8_Witness ==
  /\ pc = "propose"
  /\ Len(norms) = 4
  /\ Len(clusters) = 1
  /\ \E i \in 1..4 : rank[i] = 2
  /\ \E i, j \in 1..4 : i # j /\ ~Linked(norms[i], norms[j])
  /\ norms[1] = Normalize(Cab)

\* The original spellings of the rows whose variant is in C.
OriginalsIn(C) ==
  {rows[i].orig : i \in {j \in 1..Len(rows) : Normalize(rows[j].orig) \in C}}

\* v is the spelling of C with the most rows, the greatest string among
\* those with the most.
IsRepresentative(C, v) ==
  /\ v \in OriginalsIn(C)
  /\ \A w \in OriginalsIn(C) \ {v} :
       Freq(rows, v) > Freq(rows, w)
         \/ (Freq(rows, v) = Freq(rows, w) /\ StrLess(w, v))

\* C9: every proposal of either rule corrects a row of a cluster of two or
\* more variants, to that cluster's most frequent original spelling (ties to
\* the greatest string); a cluster of one variant yields no proposal.
C9_Canonical ==
  pc = "done" =>
    \A k \in 1..Len(fproposals) :
      LET C == Reach({Normalize(fproposals[k].original_value)})
      IN /\ Cardinality(C) >= 2
         /\ IsRepresentative(C, fproposals[k].proposed_value)

\* "Springfield" three times, "Springfeild" and "Sprinfield" once each, in
\* one ZIP, city rule, threshold 0.10.
C10_Input ==
  /\ rule = "city"
  /\ threshold = <<1, 10>>
  /\ {rows[i].orig : i \in 1..Len(rows)} = {Springfield, Springfeild, Sprinfield}
  /\ Freq(rows, Springfield) = 3
  /\ Freq(rows, Springfeild) = 1
  /\ Freq(rows, Sprinfield) = 1

ProposedFor(i) ==
  {fproposals[k].proposed_value :
     k \in {x \in 1..Len(fproposals) : fproposals[x].original_AID = rows[i].AID}}

\* C10 as stated: both misspellings are in the majority's cluster and every
\* row spelled otherwise is proposed "Springfield".
C10_BothCluster ==
  (pc = "done" /\ C10_Input) =>
    /\ ClusterSets = {VariantSet}
    /\ \A i \in 1..Len(rows) :
         rows[i].orig # Springfield => ProposedFor(i) = {Springfield}

\* C10, amended: "sprinfield" (distance 1, 1/11 < 0.10) is in the majority's
\* cluster and its row is proposed "Springfield"; "springfeild" (distance 2,
\* 2/11 >= 0.10) is a cluster of its own and its row gets no proposal.
C10_OnlySprinfield ==
  (pc = "done" /\ C10_Input) =>
    /\ ClusterSets = {{Normalize(Springfield), Normalize(Sprinfield)},
                      {Normalize(Springfeild)}}
    /\ \A i \in 1..Len(rows) :
         ProposedFor(i) =
           IF rows[i].orig = Sprinfield THEN {Springfield} ELSE {}
    /\ Len(fproposals) = 1
    /\ fproposals[1].EID_context = None
    /\ fproposals[1].column_to_change = "city_c"

C10_Witness ==
  /\ pc = "done"
  /\ C10_Input
  /\ rows[1].orig = Springfeild
  /\ Len(fproposals) = 1
  /\ fproposals[1].original_value = Sprinfield
  /\ fproposals[1].proposed_value = Springfield

----------------------------------------------------------------------------
(* Properties of the splitter *)

InputAids == {df_fa_in[j].AID : j \in 1..Len(df_fa_in)}

\* The distinct signatures the first call's input links to one AID, in row
\* order.
InputSigs(a) == Unique(SignaturesAt(df_fa_in, df_r_in, a), <<>>)

InputSig(i) == Signature(df_fa_in, df_r_in[i])

ConflictingAids ==
  {a \in {df_r_in[i].AID_2 : i \in 1..Len(df_r_in)} : Len(InputSigs(a)) > 1}

\* One less than the number of signatures, summed over a set of AIDs.
RECURSIVE ExtraSigs(_)
ExtraSigs(S) ==
  IF S = {} THEN 0
  ELSE LET a == CHOOSE y \in S : TRUE
       IN (Len(InputSigs(a)) - 1) + ExtraSigs(S \ {a})

\* C6: after the first call, for every AID with d > 1 distinct signatures the
\* rows bearing the first-encountered signature still point at that AID,
\* every later signature has a new AID of its own that all its rows point
\* at, and d-1 AIDs were minted for it.
C6_FirstSignatureKeeps ==
  calls >= 1 =>
    /\ Len(df_fa_mid) = Len(df_fa_in) + ExtraSigs(ConflictingAids)
    /\ \A i \in 1..Len(df_r_in) :
         df_r_in[i].AID_2 \in ConflictingAids =>
           IF InputSig(i) = InputSigs(df_r_in[i].AID_2)[1]
           THEN df_r_mid[i].AID_2 = df_r_in[i].AID_2
           ELSE /\ df_r_mid[i].AID_2 \notin InputAids
                /\ \A j \in 1..Len(df_r_in) :
                     df_r_in[j].AID_2 \in ConflictingAids =>
                       ((df_r_mid[j].AID_2 = df_r_mid[i].AID_2)
                          <=> (df_r_in[j].AID_2 = df_r_in[i].AID_2
                               /\ InputSig(j) = InputSig(i)))

\* C7 as stated, for any input tables: the second call returns what the
\* first returned.
C7_Idempotent ==
  calls = 2 => (df_fa = df_fa_mid /\ df_r = df_r_mid)

\* Every relationship row's AID is a row of the address table.
RowsLinked == \A i \in 1..Len(df_r_in) : df_r_in[i].AID_2 \in InputAids

\* C7, amended: on input tables whose relationship rows all point at AIDs of
\* the address table, the second call mints no AID, appends no address row
\* and changes no relationship pointer.
C7_IdempotentLinked ==
  (calls = 2 /\ RowsLinked) => (df_fa = df_fa_mid /\ df_r = df_r_mid)

\* The first call split two AIDs, the second one left its output alone.
C7_Witness ==
  /\ calls = 2
  /\ RowsLinked
  /\ Cardinality(ConflictingAids) = 2
  /\ Len(df_fa_mid) > Len(df_fa_in)
  /\ df_r_mid # df_r_in
  /\ df_fa = df_fa_mid
  /\ df_r = df_r_mid

----------------------------------------------------------------------------
(* Properties of the resolver.  The reference notions below are read off the
   proposal list as a set, so they do not depend on its order. *)

\* The proposals for one (AID, column).
PartitionOf(aid, col) ==
  {p \in Range(proposals) : p.original_AID = aid /\ p.column_to_change = col}

DistinctValues(aid, col) == {p.proposed_value : p \in PartitionOf(aid, col)}

\* The distinct contexts behind one value, None among them.
Supporters(aid, col, v) ==
  {p.EID_context : p \in {q \in PartitionOf(aid, col) : q.proposed_value = v}}

\* v ranks above w: more supporters, or as many and the greater string.
Outranks(aid, col, v, w) ==
  LET cv == Cardinality(Supporters(aid, col, v))
      cw == Cardinality(Supporters(aid, col, w))
  IN cv > cw \/ (cv = cw /\ StrLess(w, v))

IsTopValue(aid, col, v) ==
  /\ v \in DistinctValues(aid, col)
  /\ \A w \in DistinctValues(aid, col) \ {v} : Outranks(aid, col, v, w)

Present(aid) == AidIndex(df_fa_in, aid) # {}

\* The partitions the outer loop has applied the in-place value of.
Applied(k) == k \in 1..Len(bucket) /\ (k < bpos \/ (k = bpos /\ pc = "minority"))

\* The partitions the outer loop has finished.
Finished(k) == k \in 1..Len(bucket) /\ k < bpos

SplitsOf(aid, col) ==
  {i \in 1..Len(splits) : splits[i].old_aid = aid /\ splits[i].column = col}

\* C1: for a partition with two or more distinct values whose AID is in the
\* table, the value stored on the original AID's row once the partition is
\* applied, and at the end of the call, is the value with the most distinct
\* supporting contexts (None counting once), the lexicographically greatest
\* among those with the most; the proposal list's order plays no part.
C1_MajorityStored ==
  \A k \in 1..Len(bucket) :
    LET aid == bucket[k].aid
        col == bucket[k].col
    IN (Applied(k) /\ Present(aid) /\ Cardinality(DistinctValues(aid, col)) >= 2)
       => IsTopValue(aid, col, df_fa[MinOf(AidIndex(df_fa, aid))][col])

\* A tie between "2020" and "2021", "2020" proposed first and stored before
\* the call, resolved to "2021".
C1_Witness ==
  /\ pc = "done"
  /\ DistinctValues(100, "zip_c") = {V2020, V2021}
  /\ Cardinality(Supporters(100, "zip_c", V2020)) = 1
  /\ Supporters(100, "zip_c", V2021) = {None}
  /\ proposals[1].proposed_value = V2020
  /\ proposals[1].column_to_change = "zip_c"
  /\ Len(proposals) = 3
  /\ df_fa_in[1].zip_c = V2020
  /\ df_fa[1].zip_c = V2021

\* C2: a finished partition with one distinct value has no SplitEvent; a
\* finished partition with k >= 2 distinct values whose AID is in the table
\* has k-1 SplitEvents, one per non-majority value, each with its own new AID
\* and its own appended row; nothing else appends a row.
C2_SplitCount ==
  /\ Len(df_fa) = Len(df_fa_in) + Len(splits)
  /\ \A k \in 1..Len(bucket) :
       LET aid == bucket[k].aid
           col == bucket[k].col
           vals == DistinctValues(aid, col)
       IN /\ (Finished(k) /\ Cardinality(vals) = 1) => SplitsOf(aid, col) = {}
          /\ (Finished(k) /\ Present(aid) /\ Cardinality(vals) >= 2) =>
                 /\ Cardinality(SplitsOf(aid, col)) = Cardinality(vals) - 1
                 /\ {splits[i].new_value : i \in SplitsOf(aid, col)}
                      = {v \in vals : ~IsTopValue(aid, col, v)}
                 /\ Cardinality({splits[i].new_aid : i \in SplitsOf(aid, col)})
                      = Cardinality(vals) - 1
                 /\ \A i \in SplitsOf(aid, col) :
                      /\ df_fa[Len(df_fa_in) + i].AID = splits[i].new_aid
                      /\ splits[i].new_aid \notin
                           {df_fa_in[j].AID : j \in 1..Len(df_fa_in)}

\* Three distinct values for one (AID, column): two splits; and a one-value
\* partition beside it: none.
C2_Witness ==
  /\ pc = "done"
  /\ Cardinality(DistinctValues(100, "zip_c")) = 3
  /\ Cardinality(SplitsOf(100, "zip_c")) = 2
  /\ Len(df_fa) = Len(df_fa_in) + 2

C2_WitnessSingle ==
  /\ pc = "done"
  /\ Cardinality(DistinctValues(100, "city_c")) = 1
  /\ df_fa[1].city_c # df_fa_in[1].city_c
  /\ splits = <<>>

\* The step that splits: it appends one SplitEvent.
SplitStep == Len(splits') = Len(splits) + 1

LastSplit == splits'[Len(splits')]

\* C3: a split of AID a for a minority value with supporter set S into new
\* AID n repoints exactly the relationship rows whose EID is in S and whose
\* AID is a at that moment; no step adds or drops a relationship row or
\* changes any field of one but its AID.
C3_Repoint ==
  [][ /\ Len(df_r') = Len(df_r)
      /\ \A i \in 1..Len(df_r) :
           /\ df_r'[i].EID_1 = df_r[i].EID_1
           /\ df_r'[i].relationshipType = df_r[i].relationshipType
           /\ df_r'[i].number = df_r[i].number
           /\ DOMAIN df_r'[i] = DOMAIN df_r[i]
      /\ ~SplitStep => df_r' = df_r
      /\ SplitStep =>
           LET a == LastSplit.old_aid
               n == LastSplit.new_aid
               S == Supporters(a, LastSplit.column, LastSplit.new_value)
           IN \A i \in 1..Len(df_r) :
                df_r'[i].AID_2 =
                  IF df_r[i].EID_1 \in S /\ df_r[i].AID_2 = a
                  THEN n ELSE df_r[i].AID_2
    ]_vars

\* Both rows of E2 under AID 100 moved to a new AID; E1's rows, under 100
\* and under 101, stayed.
C3_Witness ==
  /\ pc = "done"
  /\ Len(splits) = 1
  /\ df_r[2].AID_2 = splits[1].new_aid
  /\ df_r[3].AID_2 = splits[1].new_aid
  /\ df_r[1].AID_2 = 100
  /\ df_r[4].AID_2 = 101
  /\ "E1" \in Supporters(100, "zip_c", df_fa[1].zip_c)

\* C4: the i-th SplitEvent carries new AID m+i, m the counter on entry, and
\* the counter is m plus the number of SplitEvents.
C4_Counter ==
  /\ current_max_aid = max_aid_in + Len(splits)
  /\ \A i \in 1..Len(splits) : splits[i].new_aid = max_aid_in + i

\* Splits in two partitions of one call.
C4_Witness ==
  /\ pc = "done"
  /\ Len(splits) = 2
  /\ splits[1].column # splits[2].column
  /\ splits[2].new_aid = max_aid_in + 2
  /\ current_max_aid = max_aid_in + 2

\* C5: no step drops or renumbers an address row; a split appends one row,
\* which is the original AID's row as it stands (the majority value already
\* in it) but for the AID, the target column, which holds the minority
\* value, and the derived full address when the table has one.
C5_CloneAppend ==
  [][ /\ Len(df_fa') >= Len(df_fa)
      /\ \A i \in 1..Len(df_fa) : df_fa'[i].AID = df_fa[i].AID
      /\ Len(df_fa') # Len(df_fa) => SplitStep
      /\ SplitStep =>
           LET orig == df_fa[MinOf(AidIndex(df_fa, LastSplit.old_aid))]
               new  == df_fa'[Len(df_fa')]
               col  == LastSplit.column
           IN /\ Len(df_fa') = Len(df_fa) + 1
              /\ \A i \in 1..Len(df_fa) : df_fa'[i] = df_fa[i]
              /\ IsTopValue(LastSplit.old_aid, col, orig[col])
              /\ DOMAIN new = DOMAIN orig
              /\ \A f \in DOMAIN orig \ {"AID", col, "fullAddress_c"} :
                   new[f] = orig[f]
              /\ new.AID = LastSplit.new_aid
              /\ new[col] = LastSplit.new_value
              /\ new[col] # orig[col]
              /\ "fullAddress_c" \in DOMAIN orig =>
                   new.fullAddress_c = reconstruct_full_address(new)
    ]_vars

\* A clone made for a ZIP split after the city of the original row was
\* filled in by an earlier partition: the clone carries the new city.
C5_Witness ==
  /\ pc = "done"
  /\ Len(df_fa) = Len(df_fa_in) + 1
  /\ HasFull(df_fa)
  /\ splits[1].column = "zip_c"
  /\ df_fa_in[1].city_c = NaN
  /\ df_fa[1].city_c = V9
  /\ df_fa[3].city_c = V9
  /\ df_fa[3].zip_c # df_fa[1].zip_c
  /\ df_fa[3].fullAddress_c # df_fa[1].fullAddress_c

\* The blank values: the missing value and the empty string.
IsBlank(v) == v = NaN \/ v = <<>>

\* Equal as stored values, the blank values counting as one.
SameStored(cur, new) == (IsBlank(cur) /\ IsBlank(new)) \/ cur = new

\* The outer loop stands at a one-value partition whose value is the stored
\* one.
AtNoOpPartition ==
  /\ InLoop
  /\ AidIndex(df_fa, bucket[bpos].aid) # {}
  /\ LET b == bucket[bpos]
     IN /\ Cardinality(DistinctValues(b.aid, b.col)) = 1
        /\ \A v \in DistinctValues(b.aid, b.col) :
             SameStored(df_fa[MinOf(AidIndex(df_fa, b.aid))][b.col], v)

\* C11: the step taken at a one-value partition whose proposed value equals
\* the stored value, the missing value and the empty string counting as the
\* same blank, changes neither table, nor the counter, nor the split log.
C11_BlankNoOp ==
  [][ AtNoOpPartition =>
        /\ df_fa' = df_fa
        /\ df_r' = df_r
        /\ current_max_aid' = current_max_aid
        /\ splits' = splits
    ]_vars

\* The outer loop stands at a partition whose AID the table does not hold.
AtStalePartition == InLoop /\ AidIndex(df_fa, bucket[bpos].aid) = {}

\* The value a partition leaves on its AID's row: its one value, or the
\* top-ranked of its values.
Settled(aid, col, v) ==
  IF Cardinality(DistinctValues(aid, col)) = 1
  THEN v \in DistinctValues(aid, col)
  ELSE IsTopValue(aid, col, v)

\* C12: the step taken at a partition whose AID is not in the current
\* address table changes no address row and appends none, repoints no
\* relationship row, leaves the counter and the split log alone and moves
\* the loop on to the next partition; the call returns only after the last
\* partition, with every partition whose AID is in the table applied (its
\* value, or its majority value, stored and its splits logged).
C12_StaleDropped ==
  /\ [][ AtStalePartition =>
            /\ df_fa' = df_fa
            /\ df_r' = df_r
            /\ current_max_aid' = current_max_aid
            /\ splits' = splits
            /\ pc' = "loop"
            /\ bpos' = bpos + 1
        ]_vars
  /\ [](pc = "done" =>
          /\ bpos = Len(bucket) + 1
          /\ \A k \in 1..Len(bucket) :
               LET aid == bucket[k].aid
                   col == bucket[k].col
               IN Present(aid) =>
                    /\ Settled(aid, col, df_fa[MinOf(AidIndex(df_fa, aid))][col])
                    /\ Cardinality(SplitsOf(aid, col))
                         = Cardinality(DistinctValues(aid, col)) - 1)

\* A partition for AID 555, which the table does not hold, ahead of a
\* conflicting partition for AID 100: the conflict was resolved and split all
\* the same, and nothing carries AID 555.
C12_Witness ==
  /\ pc = "done"
  /\ Len(bucket) = 2
  /\ bucket[1].aid = 555
  /\ ~Present(555)
  /\ bucket[2].aid = 100
  /\ Len(splits) = 1
  /\ splits[1].old_aid = 100
  /\ Len(df_fa) = Len(df_fa_in) + 1
  /\ df_r # df_r_in
  /\ AidIndex(df_fa, 555) = {}
  /\ \A i \in 1..Len(df_r) : df_r[i].AID_2 # 555

----------------------------------------------------------------------------
(* The cheap reject *)

\* Everything reachable from S along pairs below the threshold, the reject
\* left out.
RECURSIVE ReachByDistance(_)
ReachByDistance(S) ==
  LET T == S \cup {b \in VariantSet :
                     \E a \in S : Close(a, b, threshold) \/ Close(b, a, threshold)}
  IN IF T = S THEN S ELSE ReachByDistance(T)

ComponentsByDistance == {ReachByDistance({a}) : a \in VariantSet}

\* C14: under either rule and every threshold, a pair of variants the cheap
\* reject passes over (length difference > 2 and difference / longer length
\* >= threshold) has Levenshtein distance / longer length >= threshold, and
\* the partition clusters() returns is the one the distance test alone gives.
C14_RejectSound ==
  /\ \A a, b \in VariantSet :
       \A t \in LongThresholds \cup ShortThresholds :
         \A r \in {"street", "city"} :
           Pruned(r, a, b, t) =>
             /\ Abs(Len(a) - Len(b)) > 2
             /\ RatioAtLeast(Distance(a, b), Longer(Len(a), Len(b)), t)
  /\ Clustered => ClusterSets = ComponentsByDistance

\* A group in which one pair was rejected on length and another was
\* unioned: "oak" stands alone, two long variants share a cluster.
C14_Witness ==
  /\ pc = "propose"
  /\ Len(norms) = 3
  /\ Len(clusters) = 2
  /\ \E pr \in visited : Pruned(rule, norms[pr[1]], norms[pr[2]], threshold)
  /\ \E pr \in visited :
       /\ ~Pruned(rule, norms[pr[1]], norms[pr[2]], threshold)
       /\ Close(norms[pr[1]], norms[pr[2]], threshold)
       /\ Len(norms[pr[1]]) # Len(norms[pr[2]])

----------------------------------------------------------------------------
(* main: the five rules over the merged view, then the resolver *)

UpperChar(c) ==
  IF \E i \in 1..Len(LowerCase) : LowerCase[i] = c
  THEN UpperCase[CHOOSE i \in 1..Len(LowerCase) : LowerCase[i] = c]
  ELSE c

Upper(s) == [i \in 1..Len(s) |-> UpperChar(s[i])]

\* .fillna("")
FillNa(v) == IF IsNa(v) THEN <<>> ELSE v

Digits == {"0", "1", "2", "3", "4", "5", "6", "7", "8", "9"}

\* z.str.match(r"^_\d{5}$")
ValidZip(z) ==
  Len(z) = 6 /\ z[1] = "_" /\ \A i \in 2..6 : z[i] \in Digits

\* z = df["zip_c"].fillna("").astype(str).str.strip()
ZipText(row) == Strip(FillNa(row.zip_c))

\* df["street_norm"]
StreetNorm(row) == Lower(Strip(FillNa(row.streetName_c)))

\* create_merged_view: each relationship row with the address row of its
\* AID_2 beside it (a left merge; the address table is keyed by AID and holds
\* every AID_2 of the tables below).
create_merged_view(fa, r) ==
  [i \in 1..Len(r) |-> r[i] @@ fa[MinOf(AidIndex(fa, r[i].AID_2))]]

\* The merged view's columns; they do not depend on its rows.
MergedColumns(fa) == {"EID_1", "AID_2", "EID"} \cup DOMAIN fa[1]

\* [c for c in need if c not in df.columns]
MissingCols(need, cols) == SelectSeq(need, LAMBDA c : c \notin cols)

NeedRule1  == <<"AID", "EID_1", "num1_c", "streetName_c", "zip_c">>
NeedRule2  == <<"AID", "EID_1", "num1_c", "streetName_c">>
NeedRule3a == <<"AID", "EID_1", "num1_c", "streetName_c", "zip_c">>
NeedRule3b == <<"AID", "state_c", "city_c", "streetName_c", "num1_c", "zip_c">>
NeedRule4  == <<"AID", "zip_c", "city_c">>

\* grp of Rules 1 and 3a; groupby leaves out a key with a missing part.
KeyByEntity(row) == <<row.EID_1, row.num1_c, StreetNorm(row)>>

\* grp of Rule 3b
KeyByAddress(row) ==
  <<Upper(Strip(FillNa(row.state_c))), Lower(Strip(FillNa(row.city_c))),
    StreetNorm(row), row.num1_c>>

BlankZip(row)   == ZipText(row) = <<>>
InvalidZip(row) == ~ValidZip(ZipText(row)) /\ ~BlankZip(row)

\* The grouping key, the target rows and the context of each ZIP rule.
GroupKey(r, row) == IF r = "3b" THEN KeyByAddress(row) ELSE KeyByEntity(row)
IsTarget(r, row) == IF r = "3a" THEN InvalidZip(row) ELSE BlankZip(row)
ContextOf(r, row) == IF r = "3b" THEN None ELSE row.EID_1

\* canon_zip of one row: the one ZIP the valid rows of its group carry, NaN
\* when they carry none or several or when the group's key has a missing
\* part.
CanonZip(m, r, row) ==
  LET zips == {m[i].zip_c : i \in {j \in 1..Len(m) :
                  ValidZip(ZipText(m[j]))
                    /\ GroupKey(r, m[j]) = GroupKey(r, row)}}
  IN IF IsNa(row.num1_c) \/ Cardinality(zips) # 1 THEN NaN
     ELSE CHOOSE z \in zips : TRUE

\* The proposals of the target rows from row i on, in row order.
RECURSIVE ZipProposals(_, _, _)
ZipProposals(m, r, i) ==
  IF i > Len(m) THEN <<>>
  ELSE LET canon == CanonZip(m, r, m[i])
       IN (IF IsTarget(r, m[i]) /\ ~IsNa(canon)
           THEN <<Proposal(m[i].AID, ContextOf(r, m[i]), "zip_c",
                           m[i].zip_c, canon)>>
           ELSE <<>>)
          \o ZipProposals(m, r, i + 1)

\* propose_fill_missing_zips_keep, after its column validation
propose_fill_missing_zips_keep(m) == ZipProposals(m, "1", 1)

\* propose_replace_invalid_zips, after its column validation
propose_replace_invalid_zips(m) == ZipProposals(m, "3a", 1)

\* propose_fill_missing_zips_by_address, after its column validation
propose_fill_missing_zips_by_address(m) == ZipProposals(m, "3b", 1)

\* The street rule's groups hold one variant each: norms has fewer than two
\* elements in every (EID_1, num1_c) group and the rule returns no proposal.
OneStreetPerGroup(m) ==
  \A i, j \in 1..Len(m) :
    (~IsNa(m[i].num1_c) /\ ~IsNa(m[i].streetName_c)
       /\ ~IsNa(m[j].num1_c) /\ ~IsNa(m[j].streetName_c)
       /\ m[i].EID_1 = m[j].EID_1 /\ m[i].num1_c = m[j].num1_c)
    => StreetNorm(m[i]) = StreetNorm(m[j])

\* The city rule's groups hold one variant each in every valid ZIP.
OneCityPerZip(m) ==
  \A i, j \in 1..Len(m) :
    (~IsNa(m[i].zip_c) /\ ~IsNa(m[i].city_c)
       /\ ~IsNa(m[j].zip_c) /\ ~IsNa(m[j].city_c)
       /\ ValidZip(Strip(m[i].zip_c)) /\ m[i].zip_c = m[j].zip_c)
    => Lower(Strip(m[i].city_c)) = Lower(Strip(m[j].city_c))

----------------------------------------------------------------------------
(* main's inputs: an address table of four rows at 12 Oak, with any of the
   address columns absent, and up to MaxMainRel relationship rows. *)

MaxMainRel == 3

Zip12345 == <<"_", "1", "2", "3", "4", "5">>
Zip54321 == <<"_", "5", "4", "3", "2", "1">>
Troy     == <<"T", "r", "o", "y">>
Albany   == <<"A", "l", "b", "a", "n", "y">>

MainAddresses ==
  << [AID |-> 1, num1_c |-> <<"1", "2">>, streetName_c |-> Oak,
      city_c |-> Troy, state_c |-> <<"N", "Y">>, zip_c |-> Zip12345],
     [AID |-> 2, num1_c |-> <<"1", "2">>, streetName_c |-> OakSp,
      city_c |-> Troy, state_c |-> <<"n", "y">>, zip_c |-> NaN],
     [AID |-> 3, num1_c |-> <<"1", "2">>, streetName_c |-> Lower(Oak),
      city_c |-> Troy, state_c |-> <<"N", "Y">>, zip_c |-> <<"1", "2", "3">>],
     [AID |-> 4, num1_c |-> <<"1", "2">>, streetName_c |-> Oak,
      city_c |-> Albany, state_c |-> <<"N", "Y">>, zip_c |-> Zip54321] >>

\* The columns a table may come without; load_data itself needs AID, AID_2
\* and EID_1.
OptionalColumns == {"num1_c", "streetName_c", "city_c", "state_c", "zip_c"}

DropColumns(fa, D) ==
  [i \in 1..Len(fa) |-> [f \in DOMAIN fa[i] \ D |-> fa[i][f]]]

MainRelationships ==
  UNION {[1..n -> [EID_1 : {"E1", "E2"}, AID_2 : {1, 2, 3, 4}]] :
           n \in 0..MaxMainRel}

\* lines 229-235: the tables are loaded, max_aid is read, the proposal list
\* is empty.
InitMain ==
  /\ pc = "rule1"
  /\ \E D \in SUBSET OptionalColumns : df_fa_in = DropColumns(MainAddresses, D)
  /\ df_r_in \in MainRelationships
  /\ df_fa = df_fa_in
  /\ df_r = df_r_in
  /\ proposals = <<>>
  /\ max_aid_in = 0
  /\ current_max_aid = MaxAid(df_fa_in)
  /\ splits = <<>> /\ bucket = <<>> /\ bpos = 0 /\ val2eids = <<>>
  /\ vpos = 0 /\ idx0 = 0
  /\ IdleSplitter /\ IdleFuzzy /\ IdleMain

\* One rule call of main: the rule raises on a missing column, or returns
\* its proposals, which main appends to the list.
RunRule(name, need, result, next) ==
  /\ LET miss == MissingCols(need, MergedColumns(df_fa))
     IN IF miss # <<>>
        THEN /\ raised' = <<[rule |-> name, missing |-> miss]>>
             /\ pc' = "raised"
             /\ UNCHANGED <<proposals, ran>>
        ELSE /\ proposals' = proposals \o result
             /\ ran' = Append(ran, name)
             /\ pc' = next
             /\ UNCHANGED raised
  /\ UNCHANGED <<tableVars, max_aid_in, current_max_aid, splits, bucket, bpos,
                 val2eids, vpos, idx0, splitterVars, fuzzyVars>>

\* lines 238-240
RunRule1 ==
  /\ pc = "rule1"
  /\ RunRule("Rule 1", NeedRule1,
             propose_fill_missing_zips_keep(create_merged_view(df_fa, df_r)),
             "rule2")

\* lines 243-245
RunRule2 ==
  /\ pc = "rule2"
  /\ MissingCols(NeedRule2, MergedColumns(df_fa)) = <<>>
       => OneStreetPerGroup(create_merged_view(df_fa, df_r))
  /\ RunRule("street-name rule", NeedRule2, <<>>, "rule3a")

\* lines 248-250
RunRule3a ==
  /\ pc = "rule3a"
  /\ RunRule("Rule 3a", NeedRule3a,
             propose_replace_invalid_zips(create_merged_view(df_fa, df_r)),
             "rule3b")

\* lines 253-255
RunRule3b ==
  /\ pc = "rule3b"
  /\ RunRule("3b", NeedRule3b,
             propose_fill_missing_zips_by_address(
               create_merged_view(df_fa, df_r)),
             "rule4")

\* lines 258-260
RunRule4 ==
  /\ pc = "rule4"
  /\ MissingCols(NeedRule4, MergedColumns(df_fa)) = <<>>
       => OneCityPerZip(create_merged_view(df_fa, df_r))
  /\ RunRule("Rule 4", NeedRule4, <<>>, "resolve")

\* lines 263-265: the resolver is entered with the tables, the collected
\* proposals and max_aid.
CallResolver ==
  /\ pc = "resolve"
  /\ max_aid_in' = current_max_aid
  /\ pc' = "start"
  /\ UNCHANGED <<tableVars, proposals, current_max_aid, splits, bucket, bpos,
                 val2eids, vpos, idx0, splitterVars, fuzzyVars, mainVars>>

\* The proposals of the rules name AIDs of the address table, so the
\* resolver's steps are those of a partition whose AID is present.
NextMain ==
  \/ RunRule1
  \/ RunRule2
  \/ RunRule3a
  \/ RunRule3b
  \/ RunRule4
  \/ CallResolver
  \/ Bucketize
  \/ ApplySingle
  \/ ApplyMajority
  \/ SkipMajority
  \/ SplitMinority
  \/ EndPartition
  \/ Return

SpecMain == InitMain /\ [][NextMain]_vars

\* The columns some rule needs and the table lacks.
AllMissing ==
  {c \in Range(NeedRule1) \cup Range(NeedRule2) \cup Range(NeedRule3a)
           \cup Range(NeedRule3b) \cup Range(NeedRule4) :
     c \notin MergedColumns(df_fa_in)}

\* C13: when a column some rule needs is absent, no rule returns and no
\* proposal is collected; once the error is raised no rule has run, no
\* proposal exists and the tables are as loaded.
C13_ValidateFirst ==
  /\ AllMissing # {} => (ran = <<>> /\ proposals = <<>>)
  /\ raised # <<>> =>
       /\ ran = <<>>
       /\ proposals = <<>>
       /\ df_fa = df_fa_in
       /\ df_r = df_r_in

====
